---- MODULE Spec2Model ----
(***************************************************************************)
(* Model of astrbot_plugin_cot (src/main.py): the IntelligentRetryWithCoT  *)
(* plugin.  Texts are finite sequences of one-character tokens; each token *)
(* stands for one lexical unit the plugin's regular expressions and        *)
(* substring tests distinguish:                                            *)
(*   "x"  an ordinary word character                                       *)
(*   "s"  a whitespace character (what \s and str.strip() treat as blank)  *)
(*   "A"  the anchor phrase of final_reply_pattern                         *)
(*   "c"  a colon, [:：], the optional part of the anchor pattern          *)
(*   "<"  an angle opening bracket, [<＜]                                  *)
(*   "("  another opening bracket the tag detector accepts, [《([（]       *)
(*   ">"  an angle closing bracket, [>＞]                                  *)
(*   ")"  another closing bracket the tag detector accepts, [》)\]）]      *)
(*   "/"  a slash                                                          *)
(*   "R"  the core word of cot_start_tag / cot_end_tag (ROSAOS)            *)
(*   "h"  the character repeated in the filtered keyword "呵呵，"          *)
(*   "k"  the filtered keyword "（……）"                                    *)
(*   "E"  a configured error keyword (error, exception, timeout, ...)      *)
(*   "P"  a phrase of the fixed API error patterns (Request timed out ...) *)
(*   "F"  the host's failure marker "AstrBot 请求失败"                     *)
(*   "X"  the truncation marker [TRUNCATED_BY_LENGTH]                      *)
(*   "N"  the green-light marker <NO_RESPONSE>                             *)
(*   "I"  the core word of incantation_tag (Incantatio)                    *)
(*   "D"  the word DOSSIER_UPDATE                                          *)
(***************************************************************************)
EXTENDS Integers, Sequences, FiniteSets, TLC

\* ------------------------------------------------------------------ bounds
\* longest text the validator is applied to in SpecValidate
MaxLen == 4

\* ------------------------------------------------------------ text helpers
Ws == {"s"}

RECURSIVE LStrip(_)
LStrip(t) == IF t = <<>> THEN t
             ELSE IF Head(t) \in Ws THEN LStrip(Tail(t)) ELSE t

RECURSIVE RStrip(_)
RStrip(t) == IF t = <<>> THEN t
             ELSE IF t[Len(t)] \in Ws THEN RStrip(SubSeq(t, 1, Len(t) - 1)) ELSE t

\* str.strip()
Strip(t) == RStrip(LStrip(t))

\* sub in text (Python's substring test), sub non-empty
Contains(t, sub) ==
    \E i \in 1..Len(t) : i + Len(sub) - 1 <= Len(t) /\ SubSeq(t, i, i + Len(sub) - 1) = sub

HasTok(t, tok) == \E i \in 1..Len(t) : t[i] = tok

\* str.replace(kw, ""): left to right, non-overlapping, one pass
RECURSIVE ReplaceAll(_, _)
ReplaceAll(t, kw) ==
    IF Len(t) < Len(kw) THEN t
    ELSE IF SubSeq(t, 1, Len(kw)) = kw
         THEN ReplaceAll(SubSeq(t, Len(kw) + 1, Len(t)), kw)
         ELSE <<Head(t)>> \o ReplaceAll(Tail(t), kw)

\* first index at or after j that holds no whitespace (the greedy \s*)
RECURSIVE SkipWs(_, _)
SkipWs(t, j) == IF j <= Len(t) /\ t[j] \in Ws THEN SkipWs(t, j + 1) ELSE j

\* --------------------------------------------------------------- configuration
\* filtered_keywords, default ["呵呵，", "（……）"]
filtered_keywords == << <<"h", "h">>, <<"k">> >>

\* display_cot_text, default False
display_cot_text == FALSE

\* ------------------------------------------------------- Structural Validator
\* FINAL_REPLY_PATTERN = anchor phrase, optional colon, \s*.  A match starts at
\* every "A"; AnchorEnd is the index of the first character after the match.
AnchorStarts(t) == {i \in 1..Len(t) : t[i] = "A"}

AnchorEnd(t, i) ==
    SkipWs(t, IF i + 1 <= Len(t) /\ t[i + 1] = "c" THEN i + 2 ELSE i + 1)

\* COT_TAG_DETECTOR: bracket, optional slash, core word, closing bracket
TagOpenBrackets == {"<", "("}
TagCloseBrackets == {">", ")"}

\* mutant: only the angle-bracket spellings are detected
COT_TAG_DETECTOR_angle_only(t) ==
    \E i \in 1..Len(t) :
        /\ t[i] = "<"
        /\ \/ /\ i + 2 <= Len(t) /\ t[i + 1] = "R" /\ t[i + 2] = ">"
           \/ /\ i + 3 <= Len(t) /\ t[i + 1] = "/" /\ t[i + 2] = "R" /\ t[i + 3] = ">"

COT_TAG_DETECTOR(t) ==
    \E i \in 1..Len(t) :
        /\ t[i] \in TagOpenBrackets
        /\ \/ /\ i + 2 <= Len(t)
              /\ t[i + 1] = "R"
              /\ t[i + 2] \in TagCloseBrackets
           \/ /\ i + 3 <= Len(t)
              /\ t[i + 1] = "/"
              /\ t[i + 2] = "R"
              /\ t[i + 3] \in TagCloseBrackets

RECURSIVE RemoveKeywords(_, _)
RemoveKeywords(t, i) ==
    IF i > Len(filtered_keywords) THEN t
    ELSE RemoveKeywords(ReplaceAll(t, filtered_keywords[i]), i + 1)

\* mutant: the keywords are removed but the text is not trimmed
finalize_reply_only_no_strip(t) == RemoveKeywords(t, 1)

finalize_reply_only(t) == RemoveKeywords(Strip(t), 1)

\* mutant: splits at the first anchor match (matches[0])
split_by_first_anchor(t) ==
    IF AnchorStarts(t) = {}
    THEN [found |-> FALSE, thought |-> <<>>, reply |-> <<>>]
    ELSE LET first == CHOOSE i \in AnchorStarts(t) : \A j \in AnchorStarts(t) : i <= j
         IN [found |-> TRUE,
             thought |-> Strip(SubSeq(t, 1, first - 1)),
             reply |-> Strip(SubSeq(t, AnchorEnd(t, first), Len(t)))]

\* found = FALSE models the None result
split_by_final_anchor(t) ==
    IF AnchorStarts(t) = {}
    THEN [found |-> FALSE, thought |-> <<>>, reply |-> <<>>]
    ELSE LET last == CHOOSE i \in AnchorStarts(t) : \A j \in AnchorStarts(t) : j <= i
         IN [found |-> TRUE,
             thought |-> Strip(SubSeq(t, 1, last - 1)),
             reply |-> Strip(SubSeq(t, AnchorEnd(t, last), Len(t)))]

\* ok = FALSE models the raised ValueError; has_thought = FALSE models a
\* thought of None
safe_process_response(t) ==
    IF t = <<>>
    THEN [ok |-> TRUE, has_thought |-> FALSE, thought |-> <<>>, reply |-> <<>>]
    ELSE LET split == split_by_final_anchor(t)
         IN IF split.found
            THEN [ok |-> TRUE, has_thought |-> TRUE, thought |-> split.thought,
                  reply |-> finalize_reply_only(split.reply)]
            ELSE IF COT_TAG_DETECTOR(t)
                 THEN [ok |-> FALSE, has_thought |-> FALSE, thought |-> <<>>,
                       reply |-> <<>>]
                 ELSE [ok |-> TRUE, has_thought |-> FALSE, thought |-> <<>>,
                       reply |-> finalize_reply_only(t)]

\* ------------------------------------------------------ sub-envelope tags
\* tokens that begin with a word character (what \b looks at)
WordToks == {"x", "A", "R", "I", "D", "E", "P", "F", "h"}

\* INCANTATION_OPEN_PATTERN  [<＜]\s*tag\s*[>＞]  matched at i: the index of its
\* closing bracket, 0 when there is no match at i
IncOpenEnd(t, i) ==
    IF i > Len(t) \/ t[i] # "<" THEN 0
    ELSE LET j == SkipWs(t, i + 1)
         IN IF j > Len(t) \/ t[j] # "I" THEN 0
            ELSE LET k == SkipWs(t, j + 1)
                 IN IF k <= Len(t) /\ t[k] = ">" THEN k ELSE 0

\* INCANTATION_CLOSE_PATTERN  [<＜]\s*[\/／]\s*tag\s*[>＞]  matched at i
IncCloseEnd(t, i) ==
    IF i > Len(t) \/ t[i] # "<" THEN 0
    ELSE LET j == SkipWs(t, i + 1)
         IN IF j > Len(t) \/ t[j] # "/" THEN 0
            ELSE LET j2 == SkipWs(t, j + 1)
                 IN IF j2 > Len(t) \/ t[j2] # "I" THEN 0
                    ELSE LET k == SkipWs(t, j2 + 1)
                         IN IF k <= Len(t) /\ t[k] = ">" THEN k ELSE 0

IncOpens(t) == {i \in 1..Len(t) : IncOpenEnd(t, i) > 0}
IncCloses(t) == {i \in 1..Len(t) : IncCloseEnd(t, i) > 0}

\* the first close match that starts after index k, 0 when there is none
IncCloseAfter(t, k) ==
    IF \E j \in IncCloses(t) : j > k
    THEN CHOOSE j \in IncCloses(t) : j > k /\ \A j2 \in IncCloses(t) : j2 > k => j <= j2
    ELSE 0

\* INCANTATION_PATTERN.search: an open match followed by a close match
INCANTATION_PATTERN(t) == \E i \in IncOpens(t) : IncCloseAfter(t, IncOpenEnd(t, i)) > 0

has_incomplete_incantation_tag(t) ==
    IF t = <<>> THEN FALSE
    ELSE IF IncOpens(t) = {} /\ IncCloses(t) = {} THEN FALSE
    ELSE IF ~INCANTATION_PATTERN(t) THEN TRUE
    ELSE Cardinality(IncOpens(t)) # Cardinality(IncCloses(t))

\* _extract_incantation_commands: INCANTATION_PATTERN.sub from index i on;
\* n counts the commands whose normalised text is not empty
RECURSIVE ExtractFrom(_, _, _, _)
ExtractFrom(t, i, n, acc) ==
    IF i > Len(t) THEN [commands |-> n, cleaned |-> acc]
    ELSE LET oe == IncOpenEnd(t, i)
             cs == IF oe > 0 THEN IncCloseAfter(t, oe) ELSE 0
         IN IF cs > 0
            THEN ExtractFrom(t, IncCloseEnd(t, cs) + 1,
                             IF Strip(SubSeq(t, oe + 1, cs - 1)) # <<>> THEN n + 1 ELSE n,
                             acc)
            ELSE ExtractFrom(t, i + 1, n, Append(acc, t[i]))

extract_incantation_commands(t) ==
    IF t = <<>> THEN [commands |-> 0, cleaned |-> t] ELSE ExtractFrom(t, 1, 0, <<>>)

\* \b after the word DOSSIER_UPDATE at index j
WordEnds(t, j) == j = Len(t) \/ t[j + 1] \notin WordToks

\* DOSSIER_OPEN_PATTERN  [<＜]\s*DOSSIER_UPDATE\b
DOSSIER_OPEN_PATTERN(t) ==
    \E i \in 1..Len(t) :
        /\ t[i] = "<"
        /\ LET j == SkipWs(t, i + 1) IN j <= Len(t) /\ t[j] = "D" /\ WordEnds(t, j)

\* DOSSIER_CLOSE_PATTERN  [<＜]/\s*DOSSIER_UPDATE\b
DOSSIER_CLOSE_PATTERN(t) ==
    \E i \in 1..Len(t) :
        /\ t[i] = "<"
        /\ i + 1 <= Len(t)
        /\ t[i + 1] = "/"
        /\ LET j == SkipWs(t, i + 2) IN j <= Len(t) /\ t[j] = "D" /\ WordEnds(t, j)

\* index of the closing bracket of  [<＜]\s*DOSSIER_UPDATE\s*[>＞]  at i, or 0
DossierOpenEnd(t, i) ==
    IF i > Len(t) \/ t[i] # "<" THEN 0
    ELSE LET j == SkipWs(t, i + 1)
         IN IF j > Len(t) \/ t[j] # "D" THEN 0
            ELSE LET k == SkipWs(t, j + 1)
                 IN IF k <= Len(t) /\ t[k] = ">" THEN k ELSE 0

\* [<＜]/\s*DOSSIER_UPDATE\s*[>＞]  at i
DossierCloseAt(t, i) ==
    /\ i + 1 <= Len(t)
    /\ t[i] = "<"
    /\ t[i + 1] = "/"
    /\ LET j == SkipWs(t, i + 2)
       IN /\ j <= Len(t)
          /\ t[j] = "D"
          /\ LET k == SkipWs(t, j + 1) IN k <= Len(t) /\ t[k] = ">"

DOSSIER_TAG_PATTERN(t) ==
    \E i \in 1..Len(t) :
        /\ DossierOpenEnd(t, i) > 0
        /\ \E j \in 1..Len(t) : j > DossierOpenEnd(t, i) /\ DossierCloseAt(t, j)

has_incomplete_dossier_tag(t) ==
    IF t = <<>> THEN FALSE
    ELSE IF DOSSIER_TAG_PATTERN(t) THEN FALSE
    ELSE DOSSIER_OPEN_PATTERN(t) \/ DOSSIER_CLOSE_PATTERN(t)

\* ------------------------------------------------------------ error checks
\* any(kw in text.lower() for kw in error_keywords)
has_config_keyword(t) == HasTok(t, "E")

has_api_error_pattern(t) ==
    IF t = <<>> THEN FALSE
    ELSE IF HasTok(t, "F") THEN TRUE
    ELSE HasTok(t, "P")

\* mutant: only a blank text asks for a retry
should_retry_response_blank_only(t) == Strip(t) = <<>>

\* _should_retry_response on a response whose completion_text is t
should_retry_response(t) ==
    IF Strip(t) = <<>> THEN TRUE
    ELSE IF has_config_keyword(t) THEN TRUE
    ELSE has_api_error_pattern(t)

\* _is_truncated on a response whose completion_text is t
is_truncated(t) == HasTok(t, "X")

\* ------------------------------------------------------------------ state
\* max_attempts, default 3
max_attempts == 3

\* retry_delay, default 2
retry_delay == 2

\* history_limit of the hot tier (default 100), scaled down
history_limit == 3

\* clean_spectrecore_newlines, default False
clean_spectrecore_newlines == FALSE

\* the configured fallback_reply when there is one, the payload logged for an
\* empty thought, incantation_fallback_reply, and one zero-width character
FallbackText == <<"x", "x">>
NO_THOUGHT_FLAG == <<"[NO_THOUGHT_FLAG]">>
incantation_fallback_reply == <<"x", "x", "x">>
ZeroWidth == "z"

\* e1 is a message event of the host; e2 is the command event that
\* dispatch_tool_command enqueues as a copy of e1
Events == {"e1", "e2"}
Keys == {1, 2}
\* session ids: the one of the events, and two that differ only in a
\* character sanitize_filename replaces
Sessions == {"umo", "u:o", "u_o"}
unified_msg_origin(e) == "umo"

\* sanitize_filename: every character of  : \ / * ? " < > |  becomes _
sanitize_filename(session_id) == IF session_id = "u:o" THEN "u_o" ELSE session_id

\* the hot-tier files, named after the sanitized session id
Files == {sanitize_filename(u) : u \in Sessions}

\* what the provider answers to the host's own request: completion_text, role,
\* whether choices[0].finish_reason is tool_calls, and whether str(raw_completion)
\* holds "error" with "upstream" or "500"
Response(text, role, tool, rawerr) ==
    [completion_text |-> text, raw_text |-> text, role |-> role,
     tool_call |-> tool, raw_error |-> rawerr]

T_plain == <<"x">>
T_dirty == <<"s", "x", "k">>
T_blank == <<"s">>
T_full == <<"<", "R", ">", "x", "<", "/", "R", ">", "A", "c", "s", "x">>
T_rejected == <<"<", "R", ">", "x">>
T_keyword == <<"x", "E">>
T_truncated == <<"x", "X">>
T_green == <<"N", "(", "R", ")">>
T_command == <<"x", "<", "I", ">", "x", "<", "/", "I", ">">>
T_failed == <<"F", "x">>
T_unclosed == <<"x", "<", "I", ">">>

Responses ==
    {Response(t, "assistant", FALSE, FALSE) :
        t \in {T_plain, T_dirty, T_blank, T_full, T_rejected, T_keyword,
               T_truncated, T_green, T_command, T_unclosed}}
    \cup {Response(t, "assistant", TRUE, FALSE) : t \in {<<>>, T_dirty, T_rejected, T_keyword}}
    \cup {Response(T_plain, "assistant", FALSE, TRUE)}
    \cup {Response(T_failed, "err", FALSE, FALSE)}

\* what provider.text_chat does with a replayed request: it returns a response
\* with this completion_text, returns None (none), or raises (raised)
RetryOutcomes ==
    {[none |-> TRUE, raised |-> FALSE, text |-> <<>>],
     [none |-> TRUE, raised |-> TRUE, text |-> <<>>]}
    \cup {[none |-> FALSE, raised |-> FALSE, text |-> t] :
              t \in {T_plain, T_full, T_rejected, T_keyword, T_command}}

\* the context list of a request when the pre-request hook sees it
ContextsAtRequest == <<"c">>

\* the longest a context list grows by in-place appends
MaxContexts == 2

\* mutant: no copy is made, the list object itself is kept
same_list(list) == [list |-> list, same_object |-> TRUE]

\* copy.deepcopy of a list: an equal list that is a new object
deepcopy(list) == [list |-> list, same_object |-> FALSE]

\* contexts: the stored list; ctx_same_object, ctx_from: whether it is the very
\* list object of the request of event ctx_from; captured: the value the
\* pre-request hook saw
NoEntry == [present |-> FALSE, retry_guard |-> FALSE, old |-> FALSE,
            contexts |-> <<>>, ctx_same_object |-> FALSE, ctx_from |-> "none",
            captured |-> <<>>, prompt |-> <<>>]
NoResponse == Response(<<>>, "none", FALSE, FALSE)
NoResult == [present |-> FALSE, text |-> <<>>, llm |-> FALSE]
\* contexts: the list handed to provider.text_chat in the attempt in flight;
\* ctx_same_object: whether it is the very list object stored in the entry;
\* mutated: how often the provider appended to a list it was handed;
\* raised: whether the provider call of the last attempt raised;
\* slept: the seconds of each asyncio.sleep of the sequence, in order
NoRetry == [hook |-> "none", attempt |-> 0, phase |-> "idle", calls |-> 0,
            accepted |-> 0, success |-> FALSE, raised |-> FALSE, slept |-> <<>>,
            contexts |-> <<>>, ctx_same_object |-> FALSE, mutated |-> 0]

VARIABLES
    vtext,              \* SpecValidate: the text handed to safe_process_response
    vres,               \* SpecValidate: its result, or NotRun
    backoff,            \* SpecBackoff: one run of the retry loop's sleeps
    writers,            \* SpecSave: the _write_impl threads in flight
    fallback_reply,     \* configuration: the fallback text, <<>> when none
    enable_truncation_retry,    \* configuration
    pending_requests,   \* key -> stored parameters; old: now - timestamp > 300
    key,                \* event -> _retry_plugin_request_key, 0 when not set
    pc,                 \* event -> its place in the host's pipeline
    resp,               \* event -> the LLMResponse of the host's request
    result,             \* event -> event.get_result(): its plain text and type
    retry,              \* event -> the _execute_retry_sequence call of its hook
    hot,                \* hot-tier file -> its list of thoughts, newest first
    appended,           \* session -> the contents appended for it, in order
    readres,            \* the result of the last read of the log, or NotRun
    req_contexts,       \* event -> req.contexts, the context list of the host's request
    req_prompt,         \* event -> req.prompt, <<>> when empty or None
    conv_history,       \* the conversation of the requests: found, and its turns
    sent,               \* event -> the texts event.send() delivered directly
    delivered,          \* event -> the text the host sent from the result
    tracked,            \* event -> store_llm_request stored a snapshot for it
    started             \* key -> retry sequences started under the key

vars == <<vtext, vres, backoff, writers, readres, req_contexts, req_prompt,
          conv_history, fallback_reply, enable_truncation_retry, pending_requests, key, pc, resp, result, retry, hot, appended, sent,
          delivered, tracked, started>>

sysvars == <<req_contexts, req_prompt, conv_history, fallback_reply,
             enable_truncation_retry, pending_requests,
             key, pc, resp, result, retry, hot, appended, sent, delivered, tracked,
             started>>

NotRun == [ran |-> FALSE]

\* req.prompt of the host's request
Prompt == <<"q">>

NoBackoff == [retry_delay |-> 0, max_attempts |-> 0, attempt |-> 0, slept |-> <<>>,
              done |-> FALSE]

\* the calls of _async_save_thought whose _write_impl may run at the same time
Writers == {"w1", "w2"}

\* thoughts: the list _write_impl loaded from the session's json file
IdleWriter == [phase |-> "idle", session |-> "", content |-> <<>>, thoughts |-> <<>>]

NoWriters == [w \in Writers |-> IdleWriter]

SysInit ==
    /\ pending_requests = [k \in Keys |-> NoEntry]
    /\ key = [e \in Events |-> 0]
    /\ pc = [e \in Events |-> IF e = "e1" THEN "queued" ELSE "idle"]
    /\ resp = [e \in Events |-> NoResponse]
    /\ result = [e \in Events |-> NoResult]
    /\ retry = [e \in Events |-> NoRetry]
    /\ req_contexts = [e \in Events |-> ContextsAtRequest]
    /\ req_prompt = [e \in Events |-> Prompt]
    /\ conv_history = [found |-> TRUE, turns |-> <<>>]
    /\ hot = [f \in Files |-> <<>>]
    /\ appended = [u \in Sessions |-> <<>>]
    /\ sent = [e \in Events |-> <<>>]
    /\ delivered = [e \in Events |-> NoResult]
    /\ tracked = [e \in Events |-> FALSE]
    /\ started = [k \in Keys |-> 0]

Init ==
    /\ vtext = <<>>
    /\ vres = NotRun
    /\ backoff = NoBackoff
    /\ writers = NoWriters
    /\ readres = NotRun
    /\ fallback_reply \in {FallbackText, <<>>}
    /\ enable_truncation_retry \in BOOLEAN
    /\ SysInit

\* ---------------------------------------------------------------- helpers
\* _get_request_key: the key the event carries, a fresh one when it has none
FreshKey == CHOOSE k \in Keys : \A e \in Events : key[e] # k

get_request_key(e) == IF key[e] # 0 THEN key[e] ELSE FreshKey

\* mutant: the hooks go on for a key that is not stored
in_pending_requests_always(k) == TRUE

\* request_key in self.pending_requests
in_pending_requests(k) == pending_requests[k].present

retry_guard_hit(k) == pending_requests[k].present /\ pending_requests[k].retry_guard

\* _set_retry_guard: pending_requests after it
set_retry_guard(k) ==
    IF pending_requests[k].present
    THEN [pending_requests EXCEPT ![k].retry_guard = TRUE]
    ELSE pending_requests

\* mutant: the new entry goes to the end of the list
async_save_thought_at_end(tier, content) ==
    IF content = <<>> THEN tier
    ELSE LET thoughts == tier \o <<content>>
         IN IF Len(thoughts) > history_limit THEN SubSeq(thoughts, 1, history_limit)
            ELSE thoughts

\* _async_save_thought: the hot tier of one session after the write
async_save_thought(tier, content) ==
    IF content = <<>> THEN tier
    ELSE LET thoughts == <<content>> \o tier
         IN IF Len(thoughts) > history_limit THEN SubSeq(thoughts, 1, history_limit)
            ELSE thoughts

\* the effect of awaiting _async_save_thought(session_id, content)
SaveThought(session_id, content) ==
    /\ hot' = [hot EXCEPT ![sanitize_filename(session_id)] = async_save_thought(@, content)]
    /\ appended' = [appended EXCEPT ![session_id] =
                        IF content = <<>> THEN @ ELSE Append(@, content)]

log_payload(v) == IF v.thought # <<>> THEN v.thought ELSE NO_THOUGHT_FLAG

\* the text committed for a validated response
visible_text(v) ==
    IF display_cot_text /\ v.thought # <<>>
    THEN <<"x", "s">> \o v.thought \o <<"s", "s">> \o v.reply
    ELSE v.reply

\* _silence_event
silence_event(r) ==
    IF r.present THEN [r EXCEPT !.text = <<>>]
    ELSE [present |-> TRUE, text |-> <<>>, llm |-> FALSE]

\* the checks _execute_retry_sequence runs on one attempt's response
attempt_accepted(out) ==
    /\ ~out.none
    /\ out.text # <<>>
    /\ safe_process_response(out.text).ok
    /\ ~has_incomplete_incantation_tag(out.text)
    /\ ~has_incomplete_dossier_tag(out.text)
    /\ ~should_retry_response(out.text)

\* mutant: the tool-invocation exemption is dropped
needs_retry_ignoring_tool_call(r) ==
    \/ Strip(r.raw_text) = <<>>
    \/ should_retry_response(r.raw_text)
    \/ (enable_truncation_retry /\ is_truncated(r.raw_text))
    \/ ~safe_process_response(r.raw_text).ok
    \/ r.raw_error
    \/ has_incomplete_incantation_tag(r.raw_text)
    \/ has_incomplete_dossier_tag(r.raw_text)

\* needs_retry of process_and_retry_on_llm_response
needs_retry(r) ==
    /\ ~r.tool_call
    /\ \/ Strip(r.raw_text) = <<>>
       \/ should_retry_response(r.raw_text)
       \/ (enable_truncation_retry /\ is_truncated(r.raw_text))
       \/ ~safe_process_response(r.raw_text).ok
       \/ r.raw_error
       \/ has_incomplete_incantation_tag(r.raw_text)
       \/ has_incomplete_dossier_tag(r.raw_text)

\* ------------------------------------------------------------- pre-request
\* store_llm_request; excluded: the message starts with an excluded command
store_llm_request(e) ==
    /\ pc[e] = "queued"
    /\ pc' = [pc EXCEPT ![e] = "requested"]
    /\ \E excluded \in BOOLEAN :
          IF excluded
          THEN UNCHANGED <<key, pending_requests, tracked>>
          ELSE LET k == get_request_key(e)
               IN /\ key' = [key EXCEPT ![e] = k]
                  /\ pending_requests' = [pending_requests EXCEPT ![k] =
                        [present |-> TRUE, retry_guard |-> FALSE, old |-> FALSE,
                         contexts |-> deepcopy(req_contexts[e]).list,
                         ctx_same_object |-> deepcopy(req_contexts[e]).same_object,
                         ctx_from |-> e,
                         captured |-> req_contexts[e],
                         prompt |-> req_prompt[e]]]
                  /\ tracked' = [tracked EXCEPT ![e] = TRUE]
    /\ UNCHANGED <<vtext, vres, backoff, writers, readres, req_contexts, req_prompt, conv_history,
                   fallback_reply, enable_truncation_retry, resp,
                   result, retry, hot, appended, sent, delivered, started>>

\* the host's provider call returns and the host runs the on_llm_response hooks
ProviderResponds(e) ==
    /\ pc[e] = "requested"
    /\ \E r \in Responses : resp' = [resp EXCEPT ![e] = r]
    /\ pc' = [pc EXCEPT ![e] = "responded"]
    /\ UNCHANGED <<vtext, vres, backoff, writers, readres, req_contexts, req_prompt, conv_history,
                   fallback_reply, enable_truncation_retry,
                   pending_requests, key, result, retry, hot, appended, sent, delivered,
                   tracked, started>>

\* --------------------------------------------------------- retry sequence
\* the frame of a sequence that starts under key k: attempt 1 is issued at
\* once (the hook has just found k in pending_requests)
FirstAttempt(hook, k) ==
    [hook |-> hook, attempt |-> 1, phase |-> "waiting", calls |-> 1,
     accepted |-> 0, success |-> FALSE, raised |-> FALSE, slept |-> <<>>,
     contexts |-> deepcopy(pending_requests[k].contexts).list,
     ctx_same_object |-> deepcopy(pending_requests[k].contexts).same_object,
     mutated |-> 0]

\* every attempt failed: _execute_retry_sequence returns False to its hook
Exhausted(e, n, raised) ==
    /\ retry' = [retry EXCEPT ![e] = [@ EXCEPT !.attempt = n, !.phase = "done",
                                               !.success = FALSE, !.raised = raised]]
    /\ IF retry[e].hook = "resp"
       THEN /\ pc' = [pc EXCEPT ![e] = "host_result"]
            /\ IF fallback_reply # <<>>
               THEN /\ sent' = [sent EXCEPT ![e] = Append(@, fallback_reply)]
                    /\ resp' = [resp EXCEPT ![e].completion_text = <<>>]
               ELSE UNCHANGED <<sent, resp>>
            /\ UNCHANGED result
       ELSE /\ pc' = [pc EXCEPT ![e] = "dec5"]
            /\ IF fallback_reply # <<>>
               THEN \E n0 \in 0..2 :
                        result' = [result EXCEPT ![e] =
                            [present |-> TRUE,
                             text |-> fallback_reply \o [i \in 1..n0 |-> ZeroWidth],
                             llm |-> TRUE]]
               ELSE UNCHANGED result
            /\ UNCHANGED <<sent, resp>>
    /\ UNCHANGED <<vtext, vres, backoff, writers, readres, req_contexts, req_prompt, conv_history,
                   fallback_reply, enable_truncation_retry,
                   pending_requests, key, hot, appended, delivered, tracked, started>>

\* mutant: the same delay after every attempt
sleep_delay_constant(rd, current_attempt) ==
    (IF rd > 0 THEN rd ELSE 0)

\* delay * current_attempt, with delay = max(0, int(self.retry_delay))
sleep_delay(rd, current_attempt) ==
    (IF rd > 0 THEN rd ELSE 0) * current_attempt

\* the sleeps of a failed attempt: if current_attempt < self.max_attempts:
\* await asyncio.sleep(delay * current_attempt)
sleeps_after_failure(rd, current_attempt, max) ==
    IF current_attempt < max THEN <<sleep_delay(rd, current_attempt)>> ELSE <<>>

\* attempt n failed: sleep before the next one unless it was the last
AttemptFailed(e, n, raised) ==
    IF n < max_attempts
    THEN /\ retry' = [retry EXCEPT ![e] =
                [@ EXCEPT !.attempt = n, !.phase = "sleeping", !.raised = raised,
                          !.slept = @ \o sleeps_after_failure(retry_delay, n, max_attempts)]]
         /\ UNCHANGED <<vtext, vres, backoff, writers, readres, req_contexts, req_prompt, conv_history,
                   fallback_reply, enable_truncation_retry,
                        pending_requests, key, pc, resp, result, hot, appended, sent,
                        delivered, tracked, started>>
    ELSE Exhausted(e, n, raised)

\* _fix_user_history: the conversation after the call; stored is the entry of
\* the request key (absent: return), conv the conversation (not found: no change)
fix_user_history(stored, conv, bot_reply) ==
    LET prompt == stored.prompt
        history_list == conv.turns
        with_user ==
            IF history_list = <<>> \/ history_list[Len(history_list)].content # prompt
            THEN Append(history_list, [role |-> "user", content |-> prompt])
            ELSE history_list
        with_reply ==
            IF bot_reply # <<>>
            THEN Append(with_user, [role |-> "assistant", content |-> bot_reply])
            ELSE with_user
    IN IF stored.present /\ conv.found /\ prompt # <<>>
       THEN [conv EXCEPT !.turns = with_reply]
       ELSE conv

\* the success exit of _execute_retry_sequence and the rest of its hook
AttemptSucceeded(e, text) ==
    LET v == safe_process_response(text)
        u == unified_msg_origin(e)
    IN /\ retry' = [retry EXCEPT ![e] = [@ EXCEPT !.phase = "done", !.success = TRUE,
                                                  !.accepted = @ + 1]]
       /\ conv_history' = fix_user_history(pending_requests[key[e]], conv_history, v.reply)
       /\ SaveThought(u, log_payload(v))
       /\ result' = [result EXCEPT ![e] =
                        [present |-> TRUE, text |-> visible_text(v), llm |-> TRUE]]
       /\ IF retry[e].hook = "resp"
          THEN /\ resp' = [resp EXCEPT ![e].completion_text = visible_text(v)]
               /\ pc' = [pc EXCEPT ![e] = "host_result"]
          ELSE /\ UNCHANGED resp
               /\ pc' = [pc EXCEPT ![e] = "dec5"]
       /\ UNCHANGED <<vtext, vres, backoff, writers, readres, req_contexts, req_prompt,
                   fallback_reply, enable_truncation_retry,
                      pending_requests, key, sent, delivered, tracked, started>>

\* an exception leaves _execute_retry_sequence and the hook that awaits it: the
\* hook's remaining statements are skipped and the host goes on after the hook
Propagated(e) ==
    /\ retry' = [retry EXCEPT ![e] = [@ EXCEPT !.phase = "raised", !.raised = TRUE]]
    /\ pc' = [pc EXCEPT ![e] = IF retry[e].hook = "resp" THEN "host_result" ELSE "dec5"]
    /\ UNCHANGED <<vtext, vres, backoff, writers, readres, req_contexts, req_prompt, conv_history,
                   fallback_reply, enable_truncation_retry,
                   pending_requests, key, resp, result, hot, appended, sent,
                   delivered, tracked, started>>

\* mutant: the provider call is awaited outside any try block
perform_retry_uncaught(out) ==
    out

\* the try/except around provider.text_chat: an exception becomes None
perform_retry_with_stored_params(out) ==
    IF out.raised THEN [none |-> TRUE, raised |-> FALSE, text |-> <<>>] ELSE out

\* provider.text_chat of the attempt in flight returns (or raises)
ProviderReturns(e) ==
    /\ retry[e].phase = "waiting"
    /\ \E out \in RetryOutcomes :
          LET new_response == perform_retry_with_stored_params(out)
          IN IF new_response.raised
             THEN Propagated(e)
             ELSE IF attempt_accepted(new_response)
                  THEN AttemptSucceeded(e, new_response.text)
                  ELSE AttemptFailed(e, retry[e].attempt, out.raised)

\* the sleep after a failed attempt ends and the next attempt starts:
\* _perform_retry_with_stored_params returns None without a provider call when
\* the key is no longer in pending_requests
NextAttempt(e) ==
    /\ retry[e].phase = "sleeping"
    /\ IF pending_requests[key[e]].present
       THEN /\ retry' = [retry EXCEPT ![e] =
                        [@ EXCEPT !.attempt = @ + 1,
                                  !.phase = "waiting",
                                  !.raised = FALSE,
                                  !.calls = @ + 1,
                                  !.contexts = deepcopy(pending_requests[key[e]].contexts).list,
                                  !.ctx_same_object =
                                      deepcopy(pending_requests[key[e]].contexts).same_object]]
            /\ UNCHANGED <<vtext, vres, backoff, writers, readres, req_contexts, req_prompt, conv_history,
                   fallback_reply, enable_truncation_retry,
                           pending_requests, key, pc, resp, result, hot, appended, sent,
                           delivered, tracked, started>>
       ELSE AttemptFailed(e, retry[e].attempt + 1, FALSE)

\* ----------------------------------------------------------- post-response
\* mutant: the hook has no green-light exit
green_light_never(raw_text) == FALSE

\* "<NO_RESPONSE>" in raw_text
green_light(raw_text) == HasTok(raw_text, "N")

\* mutant: the hook has no exit for the host's error branch
host_error_response_never(r) == FALSE

\* getattr(resp, "role", None) == "err" and "AstrBot 请求失败" in raw_text
host_error_response(r) == r.role = "err" /\ HasTok(r.completion_text, "F")

process_and_retry_on_llm_response(e) ==
    /\ pc[e] = "responded"
    /\ LET r == resp[e]
           raw_text == r.completion_text
           v == safe_process_response(raw_text)
           k == get_request_key(e)
           u == unified_msg_origin(e)
       IN IF host_error_response(r)
          THEN /\ pc' = [pc EXCEPT ![e] = "host_result"]
               /\ UNCHANGED <<key, pending_requests, resp, result, retry, hot, appended, started>>
          ELSE /\ key' = [key EXCEPT ![e] = k]
               /\ IF \/ ~in_pending_requests(k)
                     \/ retry_guard_hit(k)
                     \/ green_light(raw_text)
                  THEN /\ pc' = [pc EXCEPT ![e] = "host_result"]
                       /\ UNCHANGED <<pending_requests, resp, result, retry, hot, appended, started>>
                  ELSE IF needs_retry(r)
                  THEN /\ pending_requests' = set_retry_guard(k)
                       /\ result' = [result EXCEPT ![e] = silence_event(@)]
                       /\ retry' = [retry EXCEPT ![e] = FirstAttempt("resp", k)]
                       /\ started' = [started EXCEPT ![k] = @ + 1]
                       /\ pc' = [pc EXCEPT ![e] = "resp_retry"]
                       /\ UNCHANGED <<resp, hot, appended>>
                  ELSE /\ resp' = [resp EXCEPT ![e].completion_text = visible_text(v)]
                       /\ SaveThought(u, log_payload(v))
                       /\ pc' = [pc EXCEPT ![e] = "host_result"]
                       /\ UNCHANGED <<pending_requests, result, retry, started>>
    /\ UNCHANGED <<vtext, vres, backoff, writers, readres, req_contexts, req_prompt, conv_history,
                   fallback_reply, enable_truncation_retry, sent,
                   delivered, tracked>>

\* the host, after its on_llm_response hooks: the event result is the
\* response's completion text as the LLM result; on its error branch the
\* result is overwritten with the error message
HostSetResult(e) ==
    /\ pc[e] = "host_result"
    /\ result' = [result EXCEPT ![e] =
                    IF resp[e].role = "err"
                    THEN [present |-> TRUE, text |-> resp[e].raw_text, llm |-> FALSE]
                    ELSE [present |-> TRUE, text |-> resp[e].completion_text, llm |-> TRUE]]
    /\ pc' = [pc EXCEPT ![e] = "dec20"]
    /\ UNCHANGED <<vtext, vres, backoff, writers, readres, req_contexts, req_prompt, conv_history,
                   fallback_reply, enable_truncation_retry,
                   pending_requests, key, resp, retry, hot, appended, sent, delivered,
                   tracked, started>>

\* ------------------------------------------------------------ pre-delivery
intercept_api_error(e) ==
    /\ pc[e] = "dec20"
    /\ LET k == get_request_key(e)
           text == result[e].text
       IN /\ key' = [key EXCEPT ![e] = k]
          /\ IF \/ ~in_pending_requests(k)
                \/ retry_guard_hit(k)
                \/ ~result[e].present
                \/ ~(has_api_error_pattern(text) \/ has_config_keyword(text))
             THEN /\ pc' = [pc EXCEPT ![e] = "dec5"]
                  /\ UNCHANGED <<pending_requests, result, retry, started>>
             ELSE /\ pending_requests' = set_retry_guard(k)
                  /\ result' = [result EXCEPT ![e] = silence_event(@)]
                  /\ retry' = [retry EXCEPT ![e] = FirstAttempt("api", k)]
                  /\ started' = [started EXCEPT ![k] = @ + 1]
                  /\ pc' = [pc EXCEPT ![e] = "api_retry"]
    /\ UNCHANGED <<vtext, vres, backoff, writers, readres, req_contexts, req_prompt, conv_history,
                   fallback_reply, enable_truncation_retry, resp,
                   hot, appended, sent, delivered, tracked>>

\* mutant: a text that cannot be validated is left in place
stripper_keeps_text(plain_text) == plain_text

\* the text final_cot_stripper puts in place of a text it cannot validate
stripper_replacement(plain_text) == fallback_reply

\* the plain text final_cot_stripper leaves in an LLM result whose plain text
\* is plain_text
stripped_text(plain_text) ==
    LET v == safe_process_response(plain_text)
        has_tag == COT_TAG_DETECTOR(plain_text)
        has_anchor == AnchorStarts(plain_text) # {}
    IN IF plain_text = <<>> THEN plain_text
       ELSE IF has_tag \/ has_anchor
            THEN IF v.ok THEN v.reply ELSE stripper_replacement(plain_text)
            ELSE plain_text

final_cot_stripper(e) ==
    /\ pc[e] = "dec5"
    /\ pc' = [pc EXCEPT ![e] = "dec4"]
    /\ IF ~result[e].present \/ ~result[e].llm
       THEN UNCHANGED result
       ELSE result' = [result EXCEPT ![e].text = stripped_text(result[e].text)]
    /\ UNCHANGED <<vtext, vres, backoff, writers, readres, req_contexts, req_prompt, conv_history,
                   fallback_reply, enable_truncation_retry,
                   pending_requests, key, resp, retry, hot, appended, sent, delivered,
                   tracked, started>>

\* dispatch_tool_command; enqueued: _enqueue_command_event put the copy on the
\* event queue (it can fail; the model holds one command event, so it fails
\* when that one is taken or when there are several commands)
dispatch_tool_command(e) ==
    /\ pc[e] = "dec4"
    /\ LET plain_text == result[e].text
           x == extract_incantation_commands(plain_text)
       IN IF ~result[e].present \/ plain_text = <<>> \/ ~result[e].llm \/ x.commands = 0
          THEN /\ pc' = [pc EXCEPT ![e] = "dec999"]
               /\ UNCHANGED <<result, key>>
          ELSE \E enqueued \in BOOLEAN :
                  /\ enqueued => (x.commands = 1 /\ pc["e2"] = "idle")
                  /\ result' = [result EXCEPT ![e].text =
                        Strip(x.cleaned)
                        \o (IF enqueued THEN <<>> ELSE incantation_fallback_reply)]
                  /\ IF enqueued
                     THEN /\ pc' = [pc EXCEPT ![e] = "dec999", !["e2"] = "queued"]
                          /\ key' = [key EXCEPT !["e2"] = key[e]]
                     ELSE /\ pc' = [pc EXCEPT ![e] = "dec999"]
                          /\ UNCHANGED key
    /\ UNCHANGED <<vtext, vres, backoff, writers, readres, req_contexts, req_prompt, conv_history,
                   fallback_reply, enable_truncation_retry,
                   pending_requests, resp, retry, hot, appended, sent, delivered, tracked,
                   started>>

\* _normalize_newlines: every line break removed, then trimmed
normalize_newlines(t) == Strip(SelectSeq(t, LAMBDA ch : ch # "s"))

normalize_spectrecore_newlines(e) ==
    /\ pc[e] = "dec999"
    /\ pc' = [pc EXCEPT ![e] = "deliver"]
    /\ IF ~clean_spectrecore_newlines \/ ~result[e].present \/ result[e].text = <<>>
       THEN UNCHANGED result
       ELSE result' = [result EXCEPT ![e].text = normalize_newlines(@)]
    /\ UNCHANGED <<vtext, vres, backoff, writers, readres, req_contexts, req_prompt, conv_history,
                   fallback_reply, enable_truncation_retry,
                   pending_requests, key, resp, retry, hot, appended, sent, delivered,
                   tracked, started>>

\* the host sends the decorated result
Deliver(e) ==
    /\ pc[e] = "deliver"
    /\ pc' = [pc EXCEPT ![e] = "sent"]
    /\ delivered' = [delivered EXCEPT ![e] = result[e]]
    /\ UNCHANGED <<vtext, vres, backoff, writers, readres, req_contexts, req_prompt, conv_history,
                   fallback_reply, enable_truncation_retry,
                   pending_requests, key, resp, result, retry, hot, appended, sent,
                   tracked, started>>

\* ------------------------------------------------------------------ sweep
\* more than 300 s have passed since the entry of key k was stored
Age(k) ==
    /\ pending_requests[k].present
    /\ ~pending_requests[k].old
    /\ pending_requests' = [pending_requests EXCEPT ![k].old = TRUE]
    /\ UNCHANGED <<vtext, vres, backoff, writers, readres, req_contexts, req_prompt, conv_history,
                   fallback_reply, enable_truncation_retry, key, pc,
                   resp, result, retry, hot, appended, sent, delivered, tracked, started>>

\* mutant: the pass does not look at the age
expired_any(v) == v.present

\* now - v.get("timestamp", 0) > 300, for an entry of the store
expired(v) == v.present /\ v.old

\* one pass of _periodic_cleanup_task
periodic_cleanup_task ==
    /\ pending_requests' =
          [k \in Keys |-> IF expired(pending_requests[k])
                          THEN NoEntry ELSE pending_requests[k]]
    /\ UNCHANGED <<vtext, vres, backoff, writers, readres, req_contexts, req_prompt, conv_history,
                   fallback_reply, enable_truncation_retry, key, pc,
                   resp, result, retry, hot, appended, sent, delivered, tracked, started>>

Next ==
    \/ \E e \in Events : store_llm_request(e)
    \/ \E e \in Events : ProviderResponds(e)
    \/ \E e \in Events : process_and_retry_on_llm_response(e)
    \/ \E e \in Events : ProviderReturns(e)
    \/ \E e \in Events : NextAttempt(e)
    \/ \E e \in Events : HostSetResult(e)
    \/ \E e \in Events : intercept_api_error(e)
    \/ \E e \in Events : final_cot_stripper(e)
    \/ \E e \in Events : dispatch_tool_command(e)
    \/ \E e \in Events : normalize_spectrecore_newlines(e)
    \/ \E e \in Events : Deliver(e)
    \/ \E k \in Keys : Age(k)
    \/ periodic_cleanup_task

Spec == Init /\ [][Next]_vars

\* ------------------------------------------------- validation on all texts
ValAlphabet == {"x", "s", "A", "c", "<", "(", "/", "R", ">", ")", "h", "k"}

TextsUpTo(alpha, n) == UNION {[1..m -> alpha] : m \in 0..n}

ValInit ==
    /\ vtext \in TextsUpTo(ValAlphabet, MaxLen)
    /\ vres = NotRun
    /\ backoff = NoBackoff
    /\ writers = NoWriters
    /\ readres = NotRun
    /\ fallback_reply = FallbackText
    /\ enable_truncation_retry = FALSE
    /\ SysInit

Validate ==
    /\ vres = NotRun
    /\ vres' = [ran |-> TRUE, out |-> safe_process_response(vtext)]
    /\ UNCHANGED <<vtext, backoff, writers, readres, sysvars>>

ValNext == Validate

SpecValidate == ValInit /\ [][ValNext]_vars

\* ===================================================================== claims

\* ---- shared vocabulary of the validator claims, stated on the raw text
LastAnchor(t) == CHOOSE i \in AnchorStarts(t) : \A j \in AnchorStarts(t) : j <= i

\* every accepted spelling of an envelope marker: opening or closing, with any
\* of the bracket variants on either side
MarkerSpellings ==
    {<<o, "R", c>> : o \in {"<", "("}, c \in {">", ")"}}
    \cup {<<o, "/", "R", c>> : o \in {"<", "("}, c \in {">", ")"}}

HasEnvelopeMarker(t) == \E m \in MarkerSpellings : Contains(t, m)

HasAnchor(t) == \E i \in 1..Len(t) : t[i] = "A"

\* trimmed, then every filtered keyword removed in list order
Cleaned(t) == RemoveKeywords(Strip(t), 1)

\* C8 (as amended): a text with an anchor is accepted as thought-and-reply,
\* split at the last anchor match: the thought is the trimmed text before the
\* match and the reply is the trimmed text after it with every filtered
\* keyword removed.
C8_SplitAtLastAnchorCleaned ==
    (vres.ran /\ HasAnchor(vtext)) =>
        /\ vres.out.ok
        /\ vres.out.has_thought
        /\ vres.out.thought = Strip(SubSeq(vtext, 1, LastAnchor(vtext) - 1))
        /\ vres.out.reply =
              Cleaned(SubSeq(vtext, AnchorEnd(vtext, LastAnchor(vtext)), Len(vtext)))

\* C8 as stated: the reply equals the trimmed text after the last anchor match.
C8_ReplyIsTrimmedTail ==
    (vres.ran /\ HasAnchor(vtext)) =>
        /\ vres.out.ok
        /\ vres.out.has_thought
        /\ vres.out.thought = Strip(SubSeq(vtext, 1, LastAnchor(vtext) - 1))
        /\ vres.out.reply =
              Strip(SubSeq(vtext, AnchorEnd(vtext, LastAnchor(vtext)), Len(vtext)))

\* a validated text with two anchors, a non-empty thought and a reply from
\* which a filtered keyword was removed
C8_Witness ==
    /\ vres.ran
    /\ Cardinality(AnchorStarts(vtext)) = 2
    /\ vres.out.ok
    /\ vres.out.thought # <<>>
    /\ vres.out.reply # Strip(SubSeq(vtext, AnchorEnd(vtext, LastAnchor(vtext)), Len(vtext)))

\* C9: zero-trust rejection: a text with an envelope marker, in any accepted
\* spelling, and no anchor is rejected; no reply is salvaged from it.
C9_ZeroTrustReject ==
    (vres.ran /\ HasEnvelopeMarker(vtext) /\ ~HasAnchor(vtext)) =>
        (~vres.out.ok /\ vres.out.reply = <<>>)

\* a rejected text whose only marker is a closing one in a mixed bracket
\* spelling
C9_Witness ==
    /\ vres.ran
    /\ Contains(vtext, <<"(", "/", "R", ">">>)
    /\ ~vres.out.ok

RespHookStep(e) == pc[e] = "responded" /\ pc'[e] # "responded"

\* the step in which the pre-delivery error interceptor of e is invoked
ApiHookStep(e) == pc[e] = "dec20" /\ pc'[e] # "dec20"

KeyAbsent(e) == key[e] = 0 \/ ~pending_requests[key[e]].present

GuardSet(e) ==
    key[e] # 0 /\ pending_requests[key[e]].present /\ pending_requests[key[e]].retry_guard

\* the texts the fallback is delivered as: the fallback and its invisible suffixes
FallbackTexts == {fallback_reply \o [i \in 1..n |-> ZeroWidth] : n \in 0..2}

Count(seq, x) == Cardinality({i \in 1..Len(seq) : seq[i] = x})

\* how many times the user received the fallback from event e
FallbackDeliveries(e) ==
    Count(sent[e], fallback_reply)
    + (IF delivered[e].present /\ delivered[e].text \in FallbackTexts THEN 1 ELSE 0)

\* C1 as stated: under one request key at most one retry sequence is ever
\* started.
C1_AtMostOneRetrySequencePerKey == \A k \in Keys : started[k] <= 1

\* C1, second half (holds): a hook invocation that finds the guard set issues
\* no provider call, starts nothing and leaves the event result alone.
C1_GuardHitIsNoOp ==
    [][\A e \in Events :
          ((RespHookStep(e) \/ ApiHookStep(e)) /\ GuardSet(e)) =>
              (retry' = retry /\ result' = result /\ started' = started)]_vars

\* C2: when the completion of a tracked request is rejected by the validator
\* (envelope marker, no anchor), the text delivered after all hooks is never
\* that completion: without an accepted retry it is the fallback or empty.
C2_RejectedNeverDeliveredRaw ==
    \A e \in Events :
        (/\ pc[e] = "sent"
         /\ tracked[e]
         /\ HasEnvelopeMarker(resp[e].raw_text)
         /\ ~HasAnchor(resp[e].raw_text)) =>
            /\ delivered[e].text # resp[e].raw_text
            /\ \A i \in 1..Len(sent[e]) : sent[e][i] # resp[e].raw_text
            /\ (~retry[e].success => delivered[e].text \in {<<>>} \cup FallbackTexts)

\* a tracked request with a rejected completion whose hook did not retry and
\* which was delivered as the fallback
C2_Witness ==
    /\ pc["e1"] = "sent"
    /\ tracked["e1"]
    /\ resp["e1"].raw_text = T_green
    /\ retry["e1"].hook = "none"
    /\ fallback_reply # <<>>
    /\ delivered["e1"].text = fallback_reply

\* C3 as stated: an exhausted retry sequence ends in one terminal outcome: with
\* a fallback configured the user receives it exactly once; with none, the
\* outbound result and the response's completion text are empty when the hook
\* that ran the sequence returns.
C3_ExhaustionTerminalOutcome ==
    \A e \in Events :
        (retry[e].phase = "done" /\ ~retry[e].success) =>
            IF fallback_reply # <<>>
            THEN pc[e] = "sent" => FallbackDeliveries(e) = 1
            ELSE pc[e] \in {"host_result", "dec5"} =>
                    (result[e].text = <<>> /\ resp[e].completion_text = <<>>)

\* C4 as stated: a retry sequence issues at most max_attempts provider calls,
\* one at a time, exactly max_attempts when every attempt fails, none after
\* the first accepted attempt, and reports success iff an attempt was accepted.
C4_RetrySequenceContract ==
    \A e \in Events :
        /\ retry[e].calls <= max_attempts
        /\ retry[e].calls <= retry[e].attempt
        /\ retry[e].accepted <= 1
        /\ retry[e].phase = "done" => (retry[e].success <=> retry[e].accepted = 1)
        /\ (retry[e].phase = "done" /\ ~retry[e].success) => retry[e].calls = max_attempts

C6_ToolCallUntouched ==
    [][\A e \in Events :
          (RespHookStep(e) /\ resp[e].tool_call) =>
              (resp'[e].completion_text = resp[e].completion_text /\ hot' = hot)]_vars

\* C7: a hook invoked for an event whose key has no PendingRequest changes
\* nothing: no provider call, and response, event result, store and log are
\* as before.
C7_UntrackedIsNoOp ==
    [][\A e \in Events :
          ((RespHookStep(e) \/ ApiHookStep(e)) /\ KeyAbsent(e)) =>
              /\ retry' = retry
              /\ resp' = resp
              /\ result' = result
              /\ pending_requests' = pending_requests
              /\ hot' = hot
              /\ sent' = sent]_vars

\* both hooks have run for an untracked event whose text carries an error
\* keyword, and the text went out as it was
C7_Witness ==
    /\ pc["e1"] = "sent"
    /\ ~tracked["e1"]
    /\ resp["e1"].raw_text = T_keyword
    /\ ~resp["e1"].tool_call
    /\ delivered["e1"].text = T_keyword

\* ---- claims on the committed reply and the log
\* open marker, reasoning t, close marker, anchor, answer r
EnvelopeText(t, r) ==
    <<"<", "R", ">">> \o t \o <<"<", "/", "R", ">">> \o <<"A", "c", "s">> \o r

\* the step in which the post-response hook of e commits the response it was
\* given: tracked, not guarded, no retry needed
CommitStep(e) ==
    /\ RespHookStep(e)
    /\ ~(resp[e].role = "err" /\ HasTok(resp[e].completion_text, "F"))
    /\ ~KeyAbsent(e)
    /\ ~GuardSet(e)
    /\ ~HasTok(resp[e].completion_text, "N")
    /\ ~needs_retry(resp[e])

\* C11 as stated: for a completion  <R> t </R> anchor r  the hook commits r as the
\* visible output and appends the reasoning t, without the markers, to the log.
C11_ThoughtLoggedWithoutMarkers ==
    [][\A e \in Events :
          (CommitStep(e) /\ resp[e].completion_text = EnvelopeText(<<"x">>, <<"x">>)) =>
              /\ resp'[e].completion_text = <<"x">>
              /\ hot'[unified_msg_origin(e)] # <<>>
              /\ hot'[unified_msg_origin(e)][1] = <<"x">>]_vars

\* C11, the half that holds: the visible output is the answer r.
C11_VisibleOutputIsAnswer ==
    [][\A e \in Events :
          (CommitStep(e) /\ resp[e].completion_text = EnvelopeText(<<"x">>, <<"x">>)) =>
              resp'[e].completion_text = <<"x">>]_vars

\* ------------------------------------------- sub-envelope checks on tag texts
\* the pieces tag texts are built from: the opening and closing tag of each
\* kind, an opening DOSSIER_UPDATE tag without its bracket, and a word
TagPieces ==
    {<<"<", "I", ">">>, <<"<", "/", "I", ">">>,
     <<"<", "D", ">">>, <<"<", "/", "D", ">">>,
     <<"<", "D">>, <<"x">>}

MaxPieces == 4

RECURSIVE Concat(_)
Concat(ps) == IF ps = <<>> THEN <<>> ELSE Head(ps) \o Concat(Tail(ps))

TagTexts == {Concat(ps) : ps \in UNION {[1..m -> TagPieces] : m \in 0..MaxPieces}}

TagInit ==
    /\ vtext \in TagTexts
    /\ vres = NotRun
    /\ backoff = NoBackoff
    /\ writers = NoWriters
    /\ readres = NotRun
    /\ fallback_reply = FallbackText
    /\ enable_truncation_retry = FALSE
    /\ SysInit

\* the two sub-envelope checks on vtext, and what the post-response hook and
\* the retry sequence make of a response with that text
CheckTags ==
    /\ vres = NotRun
    /\ vres' = [ran |-> TRUE,
                incantation |-> has_incomplete_incantation_tag(vtext),
                dossier |-> has_incomplete_dossier_tag(vtext),
                needs_retry |-> needs_retry(Response(vtext, "assistant", FALSE, FALSE)),
                accepted |-> attempt_accepted([none |-> FALSE, text |-> vtext])]
    /\ UNCHANGED <<vtext, backoff, writers, readres, sysvars>>

TagNext == CheckTags

SpecTags == TagInit /\ [][TagNext]_vars

\* ---- claims on the sub-envelope checks
\* matches of DOSSIER_OPEN_PATTERN and of DOSSIER_CLOSE_PATTERN in t
DossierOpens(t) ==
    {i \in 1..Len(t) :
        /\ t[i] = "<"
        /\ LET j == SkipWs(t, i + 1) IN j <= Len(t) /\ t[j] = "D" /\ WordEnds(t, j)}

DossierCloses(t) ==
    {i \in 1..Len(t) :
        /\ t[i] = "<"
        /\ i + 1 <= Len(t)
        /\ t[i + 1] = "/"
        /\ LET j == SkipWs(t, i + 2) IN j <= Len(t) /\ t[j] = "D" /\ WordEnds(t, j)}

\* the text is treated as rejected: it starts a retry as an original response
\* and fails as an attempt of a retry sequence
TreatedAsRejected == vres.needs_retry /\ ~vres.accepted

\* C12 as stated: a text whose opening and closing sub-envelope markers differ
\* in number is rejected, for the incantation tag and for the DOSSIER_UPDATE
\* tag, also when it holds a complete open...close region.
C12_UnbalancedTagsRejected ==
    vres.ran =>
        /\ Cardinality(IncOpens(vtext)) # Cardinality(IncCloses(vtext)) =>
              (vres.incantation /\ TreatedAsRejected)
        /\ Cardinality(DossierOpens(vtext)) # Cardinality(DossierCloses(vtext)) =>
              (vres.dossier /\ TreatedAsRejected)

\* C12, the half that holds: unbalanced incantation tags are rejected.
C12_UnbalancedIncantationRejected ==
    vres.ran =>
        (Cardinality(IncOpens(vtext)) # Cardinality(IncCloses(vtext)) =>
            (vres.incantation /\ TreatedAsRejected))

\* ---- claims on the retry trigger
\* the step in which the post-response hook of e is given a tracked, not yet
\* guarded response that is not a tool invocation
TriggerStep(e) ==
    /\ RespHookStep(e)
    /\ ~KeyAbsent(e)
    /\ ~GuardSet(e)
    /\ ~resp[e].tool_call

\* the hook step starts a retry sequence / makes no provider call
StartsRetry(e) ==
    /\ started'[key'[e]] = started[key'[e]] + 1
    /\ retry'[e].hook = "resp"
    /\ retry'[e].calls = 1

NoProviderCall(e) == retry' = retry /\ started' = started

\* the hook passes the response on without looking further: the host's own
\* error response, or a text that carries <NO_RESPONSE>
PassedThrough(r) ==
    \/ (r.role = "err" /\ HasTok(r.completion_text, "F"))
    \/ HasTok(r.completion_text, "N")

\* the four conditions the claim names
NamedTrigger(r) ==
    \/ Strip(r.completion_text) = <<>>
    \/ ~safe_process_response(r.completion_text).ok
    \/ has_config_keyword(r.completion_text)
    \/ has_api_error_pattern(r.completion_text)
    \/ (enable_truncation_retry /\ HasTok(r.completion_text, "X"))

\* the conditions the code adds: an upstream error in the raw completion, an
\* incomplete incantation or DOSSIER_UPDATE tag
AddedTrigger(r) ==
    \/ r.raw_error
    \/ has_incomplete_incantation_tag(r.completion_text)
    \/ has_incomplete_dossier_tag(r.completion_text)

\* C13 as stated: the hook starts a retry sequence iff the text is blank, the
\* validator rejects it, an error signature matches, or truncation retry is on
\* and the truncation marker is present; otherwise it commits without a
\* provider call.
C13_RetryIffNamedTrigger ==
    [][\A e \in Events :
          TriggerStep(e) =>
              /\ StartsRetry(e) <=> NamedTrigger(resp[e])
              /\ ~NamedTrigger(resp[e]) =>
                    (NoProviderCall(e) /\ hot'[unified_msg_origin(e)] # hot[unified_msg_origin(e)])]_vars

\* C13 amended: a response passed through (host error response, <NO_RESPONSE>)
\* is neither retried nor committed; any other starts a retry sequence iff a
\* named or an added condition holds, and is committed (reply written, one log
\* append, no provider call) otherwise; with truncation retry off the
\* truncation marker alone starts nothing.
C13_RetryIffTrigger ==
    [][\A e \in Events :
          TriggerStep(e) =>
              LET r == resp[e]
                  u == unified_msg_origin(e)
              IN /\ StartsRetry(e) <=>
                        (~PassedThrough(r) /\ (NamedTrigger(r) \/ AddedTrigger(r)))
                 /\ PassedThrough(r) => (NoProviderCall(e) /\ resp' = resp /\ hot' = hot)
                 /\ (~PassedThrough(r) /\ ~NamedTrigger(r) /\ ~AddedTrigger(r)) =>
                        /\ NoProviderCall(e)
                        /\ resp'[e].completion_text =
                              visible_text(safe_process_response(r.completion_text))
                        /\ Len(hot'[u]) = IF Len(hot[u]) < history_limit
                                          THEN Len(hot[u]) + 1 ELSE history_limit
                 /\ (~enable_truncation_retry /\ r = Response(T_truncated, "assistant", FALSE, FALSE))
                        => ~StartsRetry(e)]_vars

\* with truncation retry off, the hook has committed a tracked response that
\* carries the truncation marker, without a retry
C13_Witness ==
    /\ pc["e1"] = "host_result"
    /\ ~enable_truncation_retry
    /\ resp["e1"].raw_text = T_truncated
    /\ resp["e1"].completion_text = T_truncated
    /\ ~resp["e1"].tool_call
    /\ tracked["e1"]
    /\ pending_requests[key["e1"]].present
    /\ ~pending_requests[key["e1"]].retry_guard
    /\ retry["e1"] = NoRetry
    /\ hot["umo"] # <<>>

\* ------------------------------------------------------------ the log store
\* what the callers append: two thoughts, the no-thought sentinel, and an
\* empty content
LogContents == {<<"x">>, <<"c">>, NO_THOUGHT_FLAG, <<>>}

\* appends in one behaviour of the log specification
MaxAppends == 4

\* what _async_read_thought returns for the sentinel
NoThoughtText == <<"no-thought-text">>

NoContent == [found |-> FALSE, content |-> <<>>]

\* mutant: the index is taken as 0-based
async_read_thought_zero_based(session_id, index) ==
    LET thoughts == hot[sanitize_filename(session_id)]
        target_idx == index
    IN IF target_idx < 0 \/ target_idx >= Len(thoughts) THEN NoContent
       ELSE [found |-> TRUE,
             content |-> IF thoughts[target_idx + 1] = NO_THOUGHT_FLAG THEN NoThoughtText
                         ELSE thoughts[target_idx + 1]]

\* _async_read_thought; found = FALSE models None (no file: an empty list)
async_read_thought(session_id, index) ==
    LET thoughts == hot[sanitize_filename(session_id)]
        target_idx == index - 1
    IN IF target_idx < 0 \/ target_idx >= Len(thoughts) THEN NoContent
       ELSE [found |-> TRUE,
             content |-> IF thoughts[target_idx + 1] = NO_THOUGHT_FLAG THEN NoThoughtText
                         ELSE thoughts[target_idx + 1]]

\* the index argument of the rosaos command: a string of digits with this
\* value, or a string that is not all digits (such as "-1")
IndexArgs ==
    {[digits |-> TRUE, value |-> n] : n \in 0..(history_limit + 1)}
    \cup {[digits |-> FALSE, value |-> -1]}

AppendCount == Len(appended["umo"]) + Len(appended["u:o"]) + Len(appended["u_o"])

LogInit ==
    /\ vtext = <<>>
    /\ vres = NotRun
    /\ backoff = NoBackoff
    /\ writers = NoWriters
    /\ readres = NotRun
    /\ fallback_reply = FallbackText
    /\ enable_truncation_retry = FALSE
    /\ SysInit

\* one completed call of _async_save_thought
LogAppend(session_id, content) ==
    /\ AppendCount < MaxAppends
    /\ SaveThought(session_id, content)
    /\ UNCHANGED <<vtext, vres, backoff, writers, readres, req_contexts, req_prompt, conv_history,
                   fallback_reply, enable_truncation_retry,
                   pending_requests, key, pc, resp, result, retry, sent, delivered,
                   tracked, started>>

\* one call of _async_read_thought
LogRead(session_id, index) ==
    /\ readres' = [ran |-> TRUE, command |-> FALSE, session |-> session_id,
                   index |-> index, out |-> async_read_thought(session_id, index)]
    /\ UNCHANGED <<vtext, vres, backoff, writers, sysvars>>

\* the rosaos command: idx = int(index) if index.isdigit() else 1; an empty
\* log_content is answered as not found
get_rosaos_log(session_id, arg) ==
    LET idx == IF arg.digits THEN arg.value ELSE 1
        log_content == async_read_thought(session_id, idx)
    IN /\ readres' = [ran |-> TRUE, command |-> TRUE, session |-> session_id,
                      index |-> arg.value,
                      out |-> IF log_content.found /\ log_content.content # <<>>
                              THEN log_content ELSE NoContent]
       /\ UNCHANGED <<vtext, vres, backoff, writers, sysvars>>

LogNext ==
    \/ \E u \in Sessions, c \in LogContents : LogAppend(u, c)
    \/ \E u \in Sessions, i \in -1..(history_limit + 1) : LogRead(u, i)
    \/ \E u \in Sessions, a \in IndexArgs : get_rosaos_log(u, a)

SpecLog == LogInit /\ [][LogNext]_vars

\* ---- claims on the log store
\* no session that shares the hot-tier file of u has been appended to
AppendedAlone(u) ==
    \A w \in Sessions :
        (w # u /\ sanitize_filename(w) = sanitize_filename(u)) => appended[w] = <<>>

\* C14: after appends to one session its hot tier holds the last
\* min(K, history_limit) contents appended, newest first: never more than
\* history_limit, exactly history_limit after more appends than that, the
\* latest append first, the oldest dropped.
C14_HotTierBound ==
    \A u \in Sessions :
        AppendedAlone(u) =>
            LET a == appended[u]
                thoughts == hot[sanitize_filename(u)]
            IN /\ Len(thoughts) <= history_limit
               /\ Len(thoughts) = IF Len(a) > history_limit THEN history_limit ELSE Len(a)
               /\ \A i \in 1..Len(thoughts) : thoughts[i] = a[Len(a) + 1 - i]

\* more appends than the limit went to one session and the oldest was dropped
C14_Witness ==
    /\ AppendedAlone("umo")
    /\ Len(appended["umo"]) > history_limit
    /\ Len(hot["umo"]) = history_limit
    /\ appended["umo"][1] # appended["umo"][2]
    /\ hot["umo"][1] = appended["umo"][Len(appended["umo"])]

\* the step in which a call of _async_read_thought / of the rosaos command
\* returns
ReadDone == readres' # readres /\ readres'.ran /\ ~readres'.command

CommandDone == readres' # readres /\ readres'.ran /\ readres'.command

\* what a read of index i finds in the list thoughts, the sentinel being
\* answered by its text when translated
EntryAt(thoughts, i, translated) ==
    IF 1 <= i /\ i <= Len(thoughts)
    THEN [found |-> TRUE,
          content |-> IF translated /\ thoughts[i] = NO_THOUGHT_FLAG THEN NoThoughtText
                      ELSE thoughts[i]]
    ELSE NoContent

\* C15 as stated: read(session, i) returns the content of the i-th most recent
\* retained entry for 1 <= i <= length, NotFound for any other i and for a
\* session with no record, and leaves the store unchanged.
C15_ReadReturnsEntry ==
    [][ReadDone =>
          /\ readres'.out =
                EntryAt(hot[sanitize_filename(readres'.session)], readres'.index, FALSE)
          /\ hot' = hot]_vars

\* C15 amended: as stated, except that an entry holding the no-thought sentinel
\* is returned as the fixed no-thought text; the rosaos command reads index 1
\* when its argument is not a string of digits.
C15_ReadReturnsEntryOrNoThoughtText ==
    [][/\ ReadDone =>
             /\ readres'.out =
                   EntryAt(hot[sanitize_filename(readres'.session)], readres'.index, TRUE)
             /\ hot' = hot
             /\ appended' = appended
       /\ CommandDone =>
             /\ readres'.out =
                   EntryAt(hot[sanitize_filename(readres'.session)],
                           IF readres'.index >= 0 THEN readres'.index ELSE 1, TRUE)
             /\ hot' = hot
             /\ appended' = appended]_vars

\* the second most recent of two different entries has been read
C15_Witness ==
    /\ readres.ran
    /\ ~readres.command
    /\ readres.session = "umo"
    /\ readres.index = 2
    /\ Len(hot["umo"]) >= 2
    /\ hot["umo"][1] = <<"x">>
    /\ hot["umo"][2] = <<"c">>
    /\ readres.out = [found |-> TRUE, content |-> <<"c">>]

\* ---- claims on the appends of the hooks
\* the step accepts a response of e: directly in the post-response hook (a
\* validated response that is not a tool invocation), or as the success of a
\* retry attempt
AcceptedByHook(e) == CommitStep(e) /\ ~resp[e].tool_call

AcceptedByRetry(e) == retry'[e].accepted = retry[e].accepted + 1

AcceptedIn(u) ==
    {e \in Events : unified_msg_origin(e) = u /\ (AcceptedByHook(e) \/ AcceptedByRetry(e))}

\* C16 as stated: every step appends to the log of a session exactly one entry
\* per response accepted in it, directly by the post-response hook or as the
\* success of a retry sequence, and nothing otherwise (a failed attempt, an
\* exhausted sequence).
C16_OneAppendPerAcceptedResponse ==
    [][\A u \in Sessions :
          Len(appended'[u]) = Len(appended[u]) + Cardinality(AcceptedIn(u))]_vars

\* C16 without the commit of tool-invocation responses (holds): apart from the
\* hook step on a tool-invocation response, appends and accepted responses
\* correspond one to one.
C16_OneAppendPerAcceptedResponseNoToolCall ==
    [][(\A e \in Events : ~(RespHookStep(e) /\ resp[e].tool_call)) =>
          \A u \in Sessions :
              Len(appended'[u]) = Len(appended[u]) + Cardinality(AcceptedIn(u))]_vars

\* ---- claims on the PendingRequest store
\* the processing of the tracked request of e is complete: its response was
\* accepted by the post-response hook, or its retry sequence succeeded, or the
\* sequence was exhausted and the fallback applied; and the reply went out
Completed(e) ==
    /\ tracked[e]
    /\ pc[e] = "sent"
    /\ \/ /\ retry[e].hook = "none"
          /\ ~resp[e].tool_call
          /\ ~PassedThrough([resp[e] EXCEPT !.completion_text = resp[e].raw_text])
          /\ ~needs_retry(resp[e])
       \/ /\ retry[e].phase = "done"
          /\ (retry[e].success \/ fallback_reply # <<>>)

\* C17 as stated: once the processing of a tracked request is complete, the
\* PendingRequest of its key is no longer in the store.
C17_EntryRemovedOnCompletion ==
    \A e \in Events : Completed(e) => ~pending_requests[key[e]].present

\* C18 as stated: the guard flag of a key is never reset: no step replaces a
\* guarded PendingRequest by an unguarded one.
C18_GuardNeverReset ==
    [][\A k \in Keys :
          (pending_requests[k].present /\ pending_requests[k].retry_guard) =>
              ~(pending_requests'[k].present /\ ~pending_requests'[k].retry_guard)]_vars

\* C19 as stated: two distinct events never carry the same request key.
C19_KeysUnique ==
    \A e \in Events : \A f \in Events :
        (e # f /\ key[e] # 0 /\ key[f] # 0) => key[e] # key[f]

\* C19, the half that holds: the key of an event, once computed, is the key
\* every later hook computes for it.
C19_KeyStable ==
    [][\A e \in Events : key[e] # 0 => key'[e] = key[e]]_vars

\* --------------------------------------------- in-place changes of contexts
\* the entries that hold the very list object of the request of e
SharesRequestList(k, e) ==
    /\ pending_requests[k].present
    /\ pending_requests[k].ctx_same_object
    /\ pending_requests[k].ctx_from = e

\* a later pipeline stage that holds the request of e appends to req.contexts
\* in place
request_contexts_mutated(e) ==
    /\ pc[e] \notin {"idle", "queued"}
    /\ Len(req_contexts[e]) < MaxContexts
    /\ req_contexts' = [req_contexts EXCEPT ![e] = Append(@, "m")]
    /\ pending_requests' =
          [k \in Keys |-> IF SharesRequestList(k, e)
                          THEN [pending_requests[k] EXCEPT !.contexts = Append(@, "m")]
                          ELSE pending_requests[k]]
    /\ UNCHANGED <<vtext, vres, backoff, writers, readres, req_prompt, conv_history,
                   fallback_reply, enable_truncation_retry,
                   key, pc, resp, result, retry, hot, appended, sent, delivered,
                   tracked, started>>

\* provider.text_chat, called with prompt and contexts, appends the prompt to
\* the list it was handed
provider_mutates_contexts(e) ==
    /\ retry[e].phase = "waiting"
    /\ Len(retry[e].contexts) < MaxContexts
    /\ retry' = [retry EXCEPT ![e] = [@ EXCEPT !.contexts = Append(@, "p"),
                                               !.mutated = @ + 1]]
    /\ pending_requests' =
          [k \in Keys |-> IF k = key[e] /\ pending_requests[k].present
                             /\ retry[e].ctx_same_object
                          THEN [pending_requests[k] EXCEPT !.contexts = Append(@, "p")]
                          ELSE pending_requests[k]]
    /\ UNCHANGED <<vtext, vres, backoff, writers, readres, req_contexts, req_prompt, conv_history,
                   fallback_reply,
                   enable_truncation_retry, key, pc, resp, result, hot, appended,
                   sent, delivered, tracked, started>>

ReplayInit == Init

\* the request path up to the hooks that replay it, the sweep, and the
\* in-place changes
ReplayNext ==
    \/ \E e \in Events : store_llm_request(e)
    \/ \E e \in Events : ProviderResponds(e)
    \/ \E e \in Events : process_and_retry_on_llm_response(e)
    \/ \E e \in Events : ProviderReturns(e)
    \/ \E e \in Events : NextAttempt(e)
    \/ \E e \in Events : HostSetResult(e)
    \/ \E e \in Events : intercept_api_error(e)
    \/ \E k \in Keys : Age(k)
    \/ periodic_cleanup_task
    \/ \E e \in Events : request_contexts_mutated(e)
    \/ \E e \in Events : provider_mutates_contexts(e)

SpecReplay == ReplayInit /\ [][ReplayNext]_vars

\* ---- claims on the replayed context
\* the step issues a provider call of the retry sequence of e
AttemptIssued(e) == retry'[e].calls = retry[e].calls + 1

\* C20: whatever the provider and the later stages append in place to the
\* lists they hold, the contexts stored in a PendingRequest stay equal to the
\* value the pre-request hook captured, and every attempt is issued with
\* contexts equal to that value.
C20_StoredContextsNeverMutated ==
    [][/\ \A k \in Keys :
             pending_requests'[k].present =>
                 pending_requests'[k].contexts = pending_requests'[k].captured
       /\ \A e \in Events :
             AttemptIssued(e) =>
                 retry'[e].contexts = pending_requests[key'[e]].captured]_vars

\* attempt 2 is in flight with the captured contexts although the provider
\* appended to the list of attempt 1 and a later stage appended to the
\* request's own list
C20_Witness ==
    /\ retry["e1"].attempt = 2
    /\ retry["e1"].phase = "waiting"
    /\ retry["e1"].calls = 2
    /\ retry["e1"].mutated = 1
    /\ req_contexts["e1"] = <<"c", "m">>
    /\ pending_requests[key["e1"]].present
    /\ pending_requests[key["e1"]].captured = <<"c">>
    /\ retry["e1"].contexts = <<"c">>

\* ------------------------------------------------------------------ C21
\* the step in which the provider call of e's attempt in flight raises
ProviderRaised(e) ==
    /\ retry[e].phase = "waiting"
    /\ retry'[e].raised

\* C21: when the provider call of attempt n raises, the attempt counts as
\* failed (nothing is accepted, committed or logged), the exception leaves
\* neither the retry sequence nor its hook, and the sequence sleeps before
\* attempt n+1 when n < max_attempts and ends as exhausted when n = max_attempts;
\* the step after the sleep is attempt n+1
C21_ProviderExceptionIsFailedAttempt ==
    [][\A e \in Events :
          /\ ProviderRaised(e) =>
                /\ retry'[e].phase # "raised"
                /\ retry'[e].attempt = retry[e].attempt
                /\ retry'[e].accepted = retry[e].accepted
                /\ ~retry'[e].success
                /\ hot' = hot
                /\ retry'[e].phase =
                      IF retry[e].attempt < max_attempts THEN "sleeping" ELSE "done"
                /\ retry[e].attempt = max_attempts =>
                      pc'[e] = IF retry[e].hook = "resp" THEN "host_result" ELSE "dec5"
          /\ (retry[e].phase = "sleeping" /\ retry[e].raised /\ retry'[e] # retry[e]) =>
                retry'[e].attempt = retry[e].attempt + 1
      ]_vars

\* the provider raised on attempt 1 and the sequence sleeps before attempt 2
C21_Witness ==
    /\ retry["e1"].raised
    /\ retry["e1"].attempt = 1
    /\ retry["e1"].phase = "sleeping"
    /\ pc["e1"] = "resp_retry"

\* the provider raised on the last attempt and the sequence ended as exhausted
C21_WitnessExhausted ==
    /\ retry["e1"].raised
    /\ retry["e1"].attempt = max_attempts
    /\ retry["e1"].phase = "done"

\* ------------------------------------------------------------------ C22
\* the conversation history when the retry sequence starts: what the host and
\* earlier exchanges left in it
UserTurn(content) == [role |-> "user", content |-> content]

AssistantTurn(content) == [role |-> "assistant", content |-> content]

InitialHistories ==
    {<<>>,
     <<UserTurn(Prompt)>>,
     <<UserTurn(Prompt), AssistantTurn(T_rejected)>>,
     <<UserTurn(<<"x">>), AssistantTurn(Prompt)>>,
     <<UserTurn(<<"x">>), AssistantTurn(<<"x", "x">>)>>}

HistoryInit ==
    /\ vtext = <<>>
    /\ vres = NotRun
    /\ backoff = NoBackoff
    /\ writers = NoWriters
    /\ readres = NotRun
    /\ fallback_reply \in {FallbackText, <<>>}
    /\ enable_truncation_retry \in BOOLEAN
    /\ pending_requests = [k \in Keys |-> NoEntry]
    /\ key = [e \in Events |-> 0]
    /\ pc = [e \in Events |-> IF e = "e1" THEN "queued" ELSE "idle"]
    /\ resp = [e \in Events |-> NoResponse]
    /\ result = [e \in Events |-> NoResult]
    /\ retry = [e \in Events |-> NoRetry]
    /\ req_contexts = [e \in Events |-> ContextsAtRequest]
    /\ \E p \in {Prompt, <<>>} : req_prompt = [e \in Events |-> p]
    /\ \E found \in BOOLEAN, turns \in InitialHistories :
          conv_history = [found |-> found, turns |-> IF found THEN turns ELSE <<>>]
    /\ hot = [f \in Files |-> <<>>]
    /\ appended = [u \in Sessions |-> <<>>]
    /\ sent = [e \in Events |-> <<>>]
    /\ delivered = [e \in Events |-> NoResult]
    /\ tracked = [e \in Events |-> FALSE]
    /\ started = [k \in Keys |-> 0]

\* the request path up to the hooks that run the retry sequence, and the sweep
HistoryNext ==
    \/ \E e \in Events : store_llm_request(e)
    \/ \E e \in Events : ProviderResponds(e)
    \/ \E e \in Events : process_and_retry_on_llm_response(e)
    \/ \E e \in Events : ProviderReturns(e)
    \/ \E e \in Events : NextAttempt(e)
    \/ \E e \in Events : HostSetResult(e)
    \/ \E e \in Events : intercept_api_error(e)
    \/ \E k \in Keys : Age(k)
    \/ periodic_cleanup_task

SpecHistory == HistoryInit /\ [][HistoryNext]_vars

\* the step in which e's retry sequence succeeds
SequenceSucceeds(e) == ~retry[e].success /\ retry'[e].success

\* a step of e's retry sequence that is not its success
SequenceStepWithoutSuccess(e) == retry'[e] # retry[e] /\ ~retry'[e].success

\* no assistant turn of h from position from on directly follows an assistant turn
NoAssistantAfterAssistant(h, from) ==
    \A i \in from..Len(h) :
        (i > 1 /\ h[i].role = "assistant") => h[i - 1].role # "assistant"

\* C22: after a retry sequence of a request with a conversation and a prompt
\* succeeds, the history ends with the user turn of the stored prompt followed
\* by the assistant turn of the accepted reply, the user turn is not added when
\* it is already the last turn, no turn gained is an assistant turn directly
\* after an assistant turn; a failed attempt or an exhausted sequence leaves
\* the history unchanged
C22_HistoryEndsWithUserThenAssistant ==
    [][\A e \in Events :
          LET h == conv_history.turns
              g == conv_history'.turns
              n == Len(g)
          IN /\ (SequenceSucceeds(e) /\ conv_history.found /\ req_prompt[e] # <<>>) =>
                   /\ n >= 2
                   /\ g[n] = AssistantTurn(result'[e].text)
                   /\ g[n - 1] = UserTurn(req_prompt[e])
                   /\ (h # <<>> /\ h[Len(h)] = UserTurn(req_prompt[e])) => n = Len(h) + 1
                   /\ NoAssistantAfterAssistant(g, Len(h) + 1)
             /\ SequenceStepWithoutSuccess(e) => conv_history' = conv_history
      ]_vars

\* ------------------------------------------------------------------ C23
\* final_cot_stripper run on every LLM-result text, and again on its own output
StripInit ==
    /\ vtext \in TextsUpTo(ValAlphabet, MaxLen)
    /\ vres = NotRun
    /\ backoff = NoBackoff
    /\ writers = NoWriters
    /\ readres = NotRun
    /\ fallback_reply \in {FallbackText, <<>>}
    /\ enable_truncation_retry = FALSE
    /\ SysInit

\* the first run of final_cot_stripper on the text
StripOnce ==
    /\ vres = NotRun
    /\ vres' = [ran |-> TRUE, passes |-> 1, first |-> stripped_text(vtext),
                out |-> stripped_text(vtext)]
    /\ UNCHANGED <<vtext, backoff, writers, readres, sysvars>>

\* a second run of final_cot_stripper, on the output of the first
StripAgain ==
    /\ vres # NotRun
    /\ vres.passes = 1
    /\ vres' = [vres EXCEPT !.passes = 2, !.out = stripped_text(vres.out)]
    /\ UNCHANGED <<vtext, backoff, writers, readres, sysvars>>

StripNext == StripOnce \/ StripAgain

SpecStrip == StripInit /\ [][StripNext]_vars

\* C23: final_cot_stripper is idempotent: run a second time on its own output
\* it leaves the text the first run left
C23_StripperIdempotent ==
    (vres # NotRun /\ vres.passes = 2) => vres.out = vres.first

\* ------------------------------------------------------------------ C24
\* the sleeps of the retry loop for every configuration within the bounds
MaxAttemptsBound == 5

MaxDelay == 3

BackoffInit ==
    /\ vtext = <<>>
    /\ vres = NotRun
    /\ \E rd \in -1..MaxDelay, m \in 1..MaxAttemptsBound :
          backoff = [retry_delay |-> rd, max_attempts |-> m, attempt |-> 0,
                     slept |-> <<>>, done |-> FALSE]
    /\ writers = NoWriters
    /\ readres = NotRun
    /\ fallback_reply = FallbackText
    /\ enable_truncation_retry = FALSE
    /\ SysInit

\* one iteration of the loop whose attempt fails
BackoffAttemptFails ==
    /\ ~backoff.done
    /\ backoff.attempt < backoff.max_attempts
    /\ LET current_attempt == backoff.attempt + 1
       IN backoff' = [backoff EXCEPT
             !.attempt = current_attempt,
             !.slept = @ \o sleeps_after_failure(backoff.retry_delay, current_attempt,
                                                 backoff.max_attempts),
             !.done = (current_attempt = backoff.max_attempts)]
    /\ UNCHANGED <<vtext, vres, writers, readres, sysvars>>

\* one iteration of the loop whose attempt is accepted: return True
BackoffAttemptSucceeds ==
    /\ ~backoff.done
    /\ backoff.attempt < backoff.max_attempts
    /\ backoff' = [backoff EXCEPT !.attempt = @ + 1, !.done = TRUE]
    /\ UNCHANGED <<vtext, vres, writers, readres, sysvars>>

BackoffNext == BackoffAttemptFails \/ BackoffAttemptSucceeds

SpecBackoff == BackoffInit /\ [][BackoffNext]_vars

Min(a, b) == IF a < b THEN a ELSE b

\* max(0, int(self.retry_delay)) of the run
ConfiguredDelay == IF backoff.retry_delay > 0 THEN backoff.retry_delay ELSE 0

\* the largest cap that makes a difference within the bounds
MaxCap == MaxDelay * (2 ^ MaxAttemptsBound)

OtherEntry(guard, old) ==
    [NoEntry EXCEPT !.present = TRUE, !.retry_guard = guard, !.old = old,
                    !.prompt = Prompt]

\* the store holds the entry of another request when e1's request starts
SweepInit ==
    /\ vtext = <<>>
    /\ vres = NotRun
    /\ backoff = NoBackoff
    /\ writers = NoWriters
    /\ readres = NotRun
    /\ fallback_reply \in {FallbackText, <<>>}
    /\ enable_truncation_retry \in BOOLEAN
    /\ \E guard \in BOOLEAN, old \in BOOLEAN :
          pending_requests = [k \in Keys |-> IF k = 2 THEN OtherEntry(guard, old)
                                             ELSE NoEntry]
    /\ key = [e \in Events |-> 0]
    /\ pc = [e \in Events |-> IF e = "e1" THEN "queued" ELSE "idle"]
    /\ resp = [e \in Events |-> NoResponse]
    /\ result = [e \in Events |-> NoResult]
    /\ retry = [e \in Events |-> NoRetry]
    /\ req_contexts = [e \in Events |-> ContextsAtRequest]
    /\ req_prompt = [e \in Events |-> Prompt]
    /\ conv_history = [found |-> TRUE, turns |-> <<>>]
    /\ hot = [f \in Files |-> <<>>]
    /\ appended = [u \in Sessions |-> <<>>]
    /\ sent = [e \in Events |-> <<>>]
    /\ delivered = [e \in Events |-> NoResult]
    /\ tracked = [e \in Events |-> FALSE]
    /\ started = [k \in Keys |-> 0]

\* time passes and the cleanup task, once started, runs a pass every 60 seconds
\* until the plugin is terminated
SweepFairness ==
    /\ WF_vars(periodic_cleanup_task)
    /\ \A k \in Keys : WF_vars(Age(k))

\* the request path up to the hooks that run the retry sequence, and the sweep
SweepNext ==
    \/ \E e \in Events : store_llm_request(e)
    \/ \E e \in Events : ProviderResponds(e)
    \/ \E e \in Events : process_and_retry_on_llm_response(e)
    \/ \E e \in Events : ProviderReturns(e)
    \/ \E e \in Events : NextAttempt(e)
    \/ \E e \in Events : HostSetResult(e)
    \/ \E e \in Events : intercept_api_error(e)
    \/ \E k \in Keys : Age(k)
    \/ periodic_cleanup_task

SpecSweep == SweepInit /\ [][SweepNext]_vars /\ SweepFairness

\* some entry leaves the store in the step
EntryRemoved == \E k \in Keys : pending_requests[k].present /\ ~pending_requests'[k].present

\* C25: a step that removes entries removes exactly the entries older than the
\* time-to-live and leaves every younger entry, its guard flag included, as it
\* was; and every entry of the store is eventually removed
C25_SweepRemovesExactlyExpired ==
    /\ [][EntryRemoved =>
            \A k \in Keys :
                IF pending_requests[k].present /\ pending_requests[k].old
                THEN ~pending_requests'[k].present
                ELSE pending_requests'[k] = pending_requests[k]]_vars
    /\ \A k \in Keys : pending_requests[k].present ~> ~pending_requests[k].present

\* a pass removed e1's expired entry and left a younger entry with its guard set
C25_Witness ==
    /\ key["e1"] = 1
    /\ tracked["e1"]
    /\ ~pending_requests[1].present
    /\ pending_requests[2].present
    /\ pending_requests[2].retry_guard
    /\ ~pending_requests[2].old

\* ------------------------------------------------------------------ C27
\* e's response is the host's error response: role "err" with the
\* request-failed marker
ErrResponse(e) == resp[e].role = "err" /\ HasTok(resp[e].completion_text, "F")

\* the step in which e starts a retry sequence
StartsSequence(e) == retry'[e] # retry[e] /\ retry'[e].attempt = 1 /\ retry[e].attempt # 1

\* C27: for a tracked request whose response has role "err" and the
\* request-failed marker, the post-response hook returns without setting the
\* guard and without retrying; the error interceptor, run later for the event
\* while the entry is in the store, finds the guard unset and starts the retry
\* sequence; the event starts no other sequence
C27_ErrResponseRetriedByInterceptorOnce ==
    [][\A e \in Events : (ErrResponse(e) /\ tracked[e]) =>
          /\ (pc[e] = "responded" /\ pc'[e] # "responded") =>
                /\ pending_requests' = pending_requests
                /\ retry' = retry
                /\ started' = started
                /\ resp' = resp
          /\ (pc[e] = "dec20" /\ pc'[e] # "dec20" /\ pending_requests[key[e]].present) =>
                /\ ~pending_requests[key[e]].retry_guard
                /\ pending_requests'[key[e]].retry_guard
                /\ StartsSequence(e)
                /\ retry'[e].hook = "api"
                /\ started'[key[e]] = started[key[e]] + 1
          /\ StartsSequence(e) => (pc[e] = "dec20" /\ retry[e] = NoRetry)
      ]_vars

\* the interceptor started the only retry sequence of e1's failed request
C27_Witness ==
    /\ ErrResponse("e1")
    /\ tracked["e1"]
    /\ pc["e1"] = "api_retry"
    /\ retry["e1"].hook = "api"
    /\ started[key["e1"]] = 1
    /\ pending_requests[key["e1"]].retry_guard

\* ------------------------------------------------------------------ C28
\* the step in which the post-response hook runs for e
PostResponseHookRuns(e) == pc[e] = "responded" /\ pc'[e] # "responded"

\* C28: the post-response hook, run for a tracked response whose text
\* contains <NO_RESPONSE>, starts no retry sequence whatever else the text
\* holds: the store and with it the guard, the response and its completion
\* text, the event result and the log store are as they were
C28_GreenLightPassesUntouched ==
    [][\A e \in Events :
          (PostResponseHookRuns(e) /\ tracked[e]
              /\ HasTok(resp[e].completion_text, "N")) =>
                /\ pending_requests' = pending_requests
                /\ retry' = retry
                /\ started' = started
                /\ resp' = resp
                /\ result' = result
                /\ hot' = hot
                /\ appended' = appended
                /\ sent' = sent
                /\ pc'[e] = "host_result"
      ]_vars

\* the hook has let a <NO_RESPONSE> text with a thought tag and no anchor pass
C28_Witness ==
    /\ pc["e1"] = "host_result"
    /\ tracked["e1"]
    /\ resp["e1"].completion_text = T_green
    /\ ~safe_process_response(T_green).ok
    /\ pending_requests[key["e1"]].present
    /\ ~pending_requests[key["e1"]].retry_guard
    /\ retry["e1"] = NoRetry
    /\ appended = [u \in Sessions |-> <<>>]

\* ------------------------------------------------------------------ C29
\* e's retry sequence is in flight: started and not yet returned
InFlight(e) == retry[e].phase \in {"waiting", "sleeping"}

\* C29: while a retry sequence is in flight the entry of its key stays in the
\* store, and every attempt of the sequence issues a provider call
C29_SweepSparesInFlightEntry ==
    [][\A e \in Events :
          /\ (InFlight(e) /\ pending_requests[key[e]].present) =>
                pending_requests'[key[e]].present
          /\ retry'[e].calls = retry'[e].attempt
      ]_vars

\* ------------------------------------------------------------------ C30
\* _async_save_thought hands _write_impl to a worker thread (asyncio.to_thread);
\* the threads of two calls run at the same time. The load of the json file and
\* its rewrite are each taken as one step.
SaveInit ==
    /\ vtext = <<>>
    /\ vres = NotRun
    /\ backoff = NoBackoff
    /\ writers = NoWriters
    /\ readres = NotRun
    /\ fallback_reply = FallbackText
    /\ enable_truncation_retry = FALSE
    /\ SysInit

\* a call of _async_save_thought(session_id, content) starts its thread (a call
\* with an empty content returns before it starts one)
SaveStarts(w, session_id, content) ==
    /\ writers[w].phase = "idle"
    /\ content # <<>>
    /\ writers' = [writers EXCEPT ![w] = [phase |-> "loading", session |-> session_id,
                                          content |-> content, thoughts |-> <<>>]]
    /\ UNCHANGED <<vtext, vres, backoff, readres, sysvars>>

\* the thread loads the list of the session's file: thoughts = json.load(f)
WriterLoads(w) ==
    /\ writers[w].phase = "loading"
    /\ writers' = [writers EXCEPT ![w].phase = "dumping",
                                  ![w].thoughts = hot[sanitize_filename(writers[w].session)]]
    /\ UNCHANGED <<vtext, vres, backoff, readres, sysvars>>

\* the thread inserts its entry into the list it loaded, trims it and rewrites
\* the file: json.dump(thoughts, f)
WriterDumps(w) ==
    /\ writers[w].phase = "dumping"
    /\ writers' = [writers EXCEPT ![w].phase = "done"]
    /\ hot' = [hot EXCEPT ![sanitize_filename(writers[w].session)] =
                  async_save_thought(writers[w].thoughts, writers[w].content)]
    /\ appended' = [appended EXCEPT ![writers[w].session] = Append(@, writers[w].content)]
    /\ UNCHANGED <<vtext, vres, backoff, readres, req_contexts, req_prompt, conv_history,
                   fallback_reply, enable_truncation_retry, pending_requests, key, pc,
                   resp, result, retry, sent, delivered, tracked, started>>

SaveNext ==
    \/ \E w \in Writers, u \in Sessions, c \in LogContents : SaveStarts(w, u, c)
    \/ \E w \in Writers : WriterLoads(w)
    \/ \E w \in Writers : WriterDumps(w)

SpecSave == SaveInit /\ [][SaveNext]_vars

\* the contents held in a hot-tier list
Held(tier) == {tier[i] : i \in 1..Len(tier)}

\* C30: once two appends for the same session have both finished, both
\* contents are in the session's hot tier, however their threads interleaved
\* (history_limit >= 2)
C30_NoAppendLost ==
    (/\ history_limit >= 2
     /\ writers["w1"].phase = "done"
     /\ writers["w2"].phase = "done"
     /\ writers["w1"].session = writers["w2"].session) =>
        {writers["w1"].content, writers["w2"].content}
            \subseteq Held(hot[sanitize_filename(writers["w1"].session)])

\* ------------------------------------------------------------------ C31
\* the checks of the post-response hook and of the retry sequence, applied to
\* the same response, for every text within the bounds
AcceptAlphabet == {"x", "s", "A", "<", "R", ">", "X", "E", "P"}

AcceptInit ==
    /\ vtext \in TextsUpTo(AcceptAlphabet, MaxLen) \cup TagTexts
    /\ vres = NotRun
    /\ backoff = NoBackoff
    /\ writers = NoWriters
    /\ readres = NotRun
    /\ fallback_reply = FallbackText
    /\ enable_truncation_retry \in BOOLEAN
    /\ SysInit

\* a response with the text, as the original response (needs_retry of the
\* post-response hook) and as the response of a retry attempt
CheckBoth ==
    /\ vres = NotRun
    /\ \E raw_error \in BOOLEAN :
          vres' = [ran |-> TRUE, raw_error |-> raw_error,
                   needs_retry |-> needs_retry(Response(vtext, "assistant", FALSE, raw_error)),
                   accepted |-> attempt_accepted([none |-> FALSE, raised |-> FALSE,
                                                  text |-> vtext])]
    /\ UNCHANGED <<vtext, backoff, writers, readres, sysvars>>

AcceptNext == CheckBoth

SpecAccept == AcceptInit /\ [][AcceptNext]_vars

\* C31: a response the retry sequence accepts would not have triggered a
\* retry as the original response
C31_AcceptanceCoversTrigger ==
    (vres # NotRun /\ vres.accepted) => ~vres.needs_retry

\* ------------------------------------------------------------------ C32
\* the step in which an append under session B completes
AppendedUnder(B) == appended'[B] # appended[B]

\* C32: sessions are isolated in the hot tier: an append under B leaves the
\* list every read for another session A is answered from as it was, and a
\* read for A returns an entry only when something was appended under A
C32_SessionsIsolated ==
    [][/\ \A A \in Sessions, B \in Sessions :
             (A # B /\ AppendedUnder(B)) =>
                 hot'[sanitize_filename(A)] = hot[sanitize_filename(A)]
       /\ (ReadDone /\ readres'.out.found) => appended[readres'.session] # <<>>
      ]_vars

====
